---- MODULE Spec2Model ----
(***************************************************************************)
(* A model of theanolm's word lattice decoder                              *)
(* (theanolm/scoring/latticedecoder.py, class LatticeDecoder) and of the   *)
(* parts of the "theanolm decode" command that configure it.               *)
(*                                                                         *)
(* Log probabilities are integers.  A Python value that may be None is a   *)
(* sequence of length at most one: None is <<>>, the value v is <<v>>.     *)
(* A history entry is an integer: a vocabulary id is >= 0, and a word that *)
(* is kept as a literal string (an out-of-vocabulary word) is < 0.         *)
(***************************************************************************)
EXTENDS Integers, Sequences, FiniteSets, TLC

\* ------------------------------------------------------------------ bounds

\* beam is drawn from None and 0..MaxBeam
MaxBeam == 2
\* max_tokens_per_node is drawn from None and -1..MaxTokens
MaxTokens == 2
\* recombination_order is drawn from None and 0..MaxOrder
MaxOrder == 2
\* decode() is called at most this many times on one lattice object
MaxDecodes == 2

\* ---------------------------------------------------------- Python values

None == <<>>
Some(v) == <<v>>
IsNone(x) == Len(x) = 0
Val(x) == x[1]

Min2(a, b) == IF a <= b THEN a ELSE b
Max2(a, b) == IF a >= b THEN a ELSE b

\* The index a slice bound i denotes in a list of length n: a negative bound
\* counts from the end, and the result is clamped to 0..n.
PySliceIndex(i, n) == IF i < 0 THEN Max2(i + n, 0) ELSE Min2(i, n)

\* s[start:]
PySliceFrom(s, start) == SubSeq(s, PySliceIndex(start, Len(s)) + 1, Len(s))

\* what is left of s after  s[start:] = []
PyDeleteFrom(s, start) == SubSeq(s, 1, PySliceIndex(start, Len(s)))

\* hash(tuple(limited_history)): a polynomial hash of the entries, so that
\* equal tuples have equal hashes and the empty tuple has a hash of its own.
RECURSIVE HashTuple(_)
HashTuple(s) ==
    IF Len(s) = 0 THEN 7
    ELSE (HashTuple(SubSeq(s, 1, Len(s) - 1)) * 31 + s[Len(s)] + 11) % 1000003

\* ------------------------------------------------------------- vocabulary

\* The vocabulary of the network: <s>, </s>, <unk>, two shortlist words and
\* one word that is in the vocabulary but not in the shortlist.
VocabularyWords == <<"<s>", "</s>", "<unk>", "a", "b", "c">>

\* Words of a lattice that the vocabulary does not contain; they are kept in
\* the history as literal strings (the entry -k stands for the k-th of them).
LiteralWords == <<"zz", "yy">>

InVocabulary(word) == \E i \in 1..Len(VocabularyWords) : VocabularyWords[i] = word

word_to_id(word) == (CHOOSE i \in 1..Len(VocabularyWords) : VocabularyWords[i] = word) - 1

LiteralWord(word) == 0 - (CHOOSE i \in 1..Len(LiteralWords) : LiteralWords[i] = word)

\* isinstance(word, int)
IsInt(word) == word >= 0

in_shortlist(word_id) == word_id <= 4

sos_id == word_to_id("<s>")
eos_id == word_to_id("</s>")
unk_id == word_to_id("<unk>")

\* word_id_to_class_id: the shortlist words have a class each, and the words
\* outside the shortlist share the class of <unk>.
word_id_to_class_id(word_id) == IF in_shortlist(word_id) THEN word_id ELSE unk_id

\* log of the class membership probability of a word id
MembershipLogprob(word_id) == IF word_id = 3 \/ word_id = 4 THEN 0 - 1 ELSE 0

\* log of the out-of-shortlist probability of a vocabulary word
OosLogprob(word_id) == IF in_shortlist(word_id) THEN 0 ELSE 0 - 2

\* link.word.startswith('!')
IsMarker(word) == word \in {"!NULL", "!ENTER", "!EXIT"}

\* ---------------------------------------------------------------- network

\* The recurrent state of a sequence is modelled by the word ids the network
\* has read; RecurrentState(size) is the state of a sequence that read none.
InitialRecurrentState == <<>>

RECURSIVE SumSeq(_)
SumSeq(s) == IF Len(s) = 0 THEN 0 ELSE s[1] + SumSeq(Tail(s))

\* The step function: the log probability of the target class after the
\* network has read input_word_id in recurrent state state.
StepLogprob(state, input_word_id, target_class_id) ==
    0 - (1 + ((SumSeq(state) + 2 * input_word_id + target_class_id) % 3))

StepState(state, input_word_id) == Append(state, input_word_id)

\* interpolate_loglinear(logprob1, logprob2, weight1, weight2)
interpolate_loglinear(logprob1, logprob2, weight1, weight2) ==
    logprob1 * weight1 + logprob2 * weight2

\* interpolate_linear(logprob1, logprob2, weight1) for a weight of 0 or 1:
\* log(weight1 * exp(logprob1) + (1 - weight1) * exp(logprob2))
interpolate_linear(logprob1, logprob2, weight1) ==
    IF weight1 = 1 THEN logprob1 ELSE logprob2

\* ------------------------------------------------------------------ tokens

Token(history, state, ac_logprob, lat_lm_logprob, nn_lm_logprob) ==
    [history |-> history,
     state |-> state,
     ac_logprob |-> ac_logprob,
     lat_lm_logprob |-> lat_lm_logprob,
     nn_lm_logprob |-> nn_lm_logprob,
     recombination_hash |-> None,
     lm_logprob |-> None,
     total_logprob |-> None]

\* A copy that starts its acoustic and lattice LM sums again from 0.
copy_without_sums(token) ==
    Token(token.history, token.state, 0, 0, token.nn_lm_logprob)

copy(token) ==
    Token(token.history, token.state, token.ac_logprob,
          token.lat_lm_logprob, token.nn_lm_logprob)

\* the part of the history that recompute_hash hashes
limited_history(history, recombination_order) ==
    IF IsNone(recombination_order) THEN history
    ELSE PySliceFrom(history, 0 - Val(recombination_order))

recompute_hash(token, recombination_order) ==
    [token EXCEPT !.recombination_hash =
        Some(HashTuple(limited_history(token.history, recombination_order)))]

interpolate(token, nn_lm_weight, linear) ==
    IF linear
    THEN interpolate_linear(token.nn_lm_logprob, token.lat_lm_logprob, nn_lm_weight)
    ELSE interpolate_loglinear(token.nn_lm_logprob, token.lat_lm_logprob,
                               nn_lm_weight, 1 - nn_lm_weight)

\* A total in which the LM scale multiplies the word insertion penalty too.
recompute_total_scaled_penalty(token, nn_lm_weight, lm_scale, wi_penalty, linear) ==
    LET lm == interpolate(token, nn_lm_weight, linear)
    IN  [token EXCEPT
            !.lm_logprob = Some(lm),
            !.total_logprob =
                Some(token.ac_logprob
                        + (lm + wi_penalty * Len(token.history)) * lm_scale)]

recompute_total(token, nn_lm_weight, lm_scale, wi_penalty, linear) ==
    LET lm == interpolate(token, nn_lm_weight, linear)
    IN  [token EXCEPT
            !.lm_logprob = Some(lm),
            !.total_logprob =
                Some(token.ac_logprob + lm * lm_scale + wi_penalty * Len(token.history))]

\* ------------------------------------------------------------------- state

VARIABLES
    options,        \* the decoding options the decoder was constructed with
    lattice,        \* the lattice object given to decode(): its links, node
                    \* times, initial and final node, lm_scale and wi_penalty
    node_order,     \* what lattice.sorted_nodes() returns for this lattice
    best_logprob,   \* node.best_logprob of every node of the lattice object
    tokens,         \* self._tokens: node id -> list of tokens
    sorted_nodes,   \* self._sorted_nodes
    lm_scale,       \* decode()'s local lm_scale
    wi_penalty,     \* decode()'s local wi_penalty
    node_index,     \* position of the for loop of decode() in sorted_nodes
    pc,             \* where decode() is: idle, loop, pruned, returned, failed
    result,         \* the list decode() returned
    error,          \* the exception decode() raised
    calls,          \* decode() calls made on this lattice object
    pruning,        \* the locals of the last _prune() call
    first_outcome,  \* how the first decode() call on this lattice ended
    propagations,   \* the _propagate() calls of the decode() call under way
    command         \* a run of the decode command: its arguments, its list of
                    \* lattices, the lattices it has decoded, its exit status

vars == <<options, lattice, node_order, best_logprob, tokens, sorted_nodes,
          lm_scale, wi_penalty, node_index, pc, result, error, calls, pruning,
          first_outcome, propagations, command>>

\* the state of the decoder and of the lattice it decodes
decoder_vars == <<options, lattice, node_order, best_logprob, tokens, sorted_nodes,
                  lm_scale, wi_penalty, node_index, pc, result, error, calls,
                  pruning, first_outcome, propagations>>

Nodes == 0..(lattice.num_nodes - 1)

\* node.out_links, in the order of the lattice's links
out_links(node_id) == SelectSeq(lattice.links, LAMBDA link : link.start_node = node_id)

\* ------------------------------------------------------------- propagation

limit_to_shortlist(word) ==
    IF IsInt(word) /\ in_shortlist(word) THEN word ELSE unk_id

\* An override that is used for every word when there are no
\* out-of-shortlist probabilities, the shortlist words too.
handle_unk_logprob_any_word(word, network_logprob, oov_logprob) ==
    IF options.has_oos_logprobs
    THEN IF IsInt(word) THEN network_logprob + OosLogprob(word)
         ELSE IF ~IsNone(oov_logprob) THEN Val(oov_logprob)
         ELSE network_logprob
    ELSE IF ~IsNone(oov_logprob) THEN Val(oov_logprob)
    ELSE network_logprob

handle_unk_logprob(word, network_logprob, oov_logprob) ==
    LET in_vocabulary == IsInt(word)
        word_in_shortlist == in_vocabulary /\ in_shortlist(word)
    IN  IF options.has_oos_logprobs
        THEN IF in_vocabulary THEN network_logprob + OosLogprob(word)
             ELSE IF ~IsNone(oov_logprob) THEN Val(oov_logprob)
             ELSE network_logprob
        ELSE IF (~word_in_shortlist) /\ ~IsNone(oov_logprob) THEN Val(oov_logprob)
        ELSE network_logprob

\* An append of the word as the network is asked for it: <unk> for a word
\* that is not a shortlist id.
append_word_to_substituted(token, target_word, oov_logprob) ==
    LET input_word_id == limit_to_shortlist(token.history[Len(token.history)])
        target_word_id == limit_to_shortlist(target_word)
        target_class_id == word_id_to_class_id(target_word_id)
        logprob == StepLogprob(token.state, input_word_id, target_class_id)
                   + MembershipLogprob(input_word_id)
    IN  [token EXCEPT
            !.history = Append(@, target_word_id),
            !.state = StepState(token.state, input_word_id),
            !.nn_lm_logprob = @ + handle_unk_logprob(target_word, logprob, oov_logprob)]

\* what _append_word does to one token of the batch
append_word_to(token, target_word, oov_logprob) ==
    LET input_word_id == limit_to_shortlist(token.history[Len(token.history)])
        target_word_id == limit_to_shortlist(target_word)
        target_class_id == word_id_to_class_id(target_word_id)
        logprob == StepLogprob(token.state, input_word_id, target_class_id)
                   + MembershipLogprob(input_word_id)
    IN  [token EXCEPT
            !.history = Append(@, target_word),
            !.state = StepState(token.state, input_word_id),
            !.nn_lm_logprob = @ + handle_unk_logprob(target_word, logprob, oov_logprob)]

append_word(toks, target_word, oov_logprob) ==
    [i \in 1..Len(toks) |-> append_word_to(toks[i], target_word, oov_logprob)]

\* A word that is not in the vocabulary and is replaced by <unk>.
link_word_unk(word) ==
    IF InVocabulary(word) THEN word_to_id(word) ELSE unk_id

\* the word of a link as _propagate appends it: its id, or the word itself
link_word(word) ==
    IF InVocabulary(word) THEN word_to_id(word) ELSE LiteralWord(word)

\* A link whose language model log probability is not added to the token.
add_link_scores_ac_only(token, link) ==
    [token EXCEPT
        !.ac_logprob = IF IsNone(link.ac_logprob) THEN @ ELSE @ + Val(link.ac_logprob)]

add_link_scores(token, link) ==
    [token EXCEPT
        !.ac_logprob = IF IsNone(link.ac_logprob) THEN @ ELSE @ + Val(link.ac_logprob),
        !.lat_lm_logprob = IF IsNone(link.lm_logprob) THEN @ ELSE @ + Val(link.lm_logprob)]

\* A hash and a total that are computed before the last word is appended.
finalize_before_append(token, lm_scale_, wi_penalty_) ==
    LET before == [token EXCEPT !.history = SubSeq(@, 1, Len(@) - 1)]
        stale == recompute_total(recompute_hash(before, options.recombination_order),
                                 options.nnlm_weight, lm_scale_, wi_penalty_,
                                 options.linear_interpolation)
    IN  [stale EXCEPT !.history = token.history]

finalize(token, lm_scale_, wi_penalty_) ==
    recompute_total(recompute_hash(token, options.recombination_order),
                    options.nnlm_weight, lm_scale_, wi_penalty_,
                    options.linear_interpolation)

\* _propagate(tokens, link, lm_scale, wi_penalty): link is None (end of
\* sentence) or Some(link).  The update of best_logprob is update_best.
propagate(toks, link, lm_scale_, wi_penalty_) ==
    LET copies == [i \in 1..Len(toks) |-> copy(toks[i])]
        new_tokens ==
            IF IsNone(link) THEN append_word(copies, eos_id, None)
            ELSE LET scored == [i \in 1..Len(copies) |->
                                    add_link_scores(copies[i], Val(link))]
                     word == link_word(Val(link).word)
                 IN  IF IsMarker(Val(link).word) THEN scored
                     ELSE IF options.unk_from_lattice
                          THEN append_word(scored, word, Val(link).lm_logprob)
                     ELSE IF ~IsNone(options.unk_penalty)
                          THEN append_word(scored, word, options.unk_penalty)
                     ELSE append_word(scored, word, None)
    IN  [i \in 1..Len(new_tokens) |-> finalize(new_tokens[i], lm_scale_, wi_penalty_)]

\* The call of self._step_function that _append_word makes for a batch of
\* tokens and a target word: one input word id and one recurrent state for
\* each token, and the class id of the target word for all of them.
step_function_call(toks, target_word) ==
    [input_word_ids |-> [i \in 1..Len(toks) |->
                            limit_to_shortlist(toks[i].history[Len(toks[i].history)])],
     recurrent_state |-> [i \in 1..Len(toks) |-> toks[i].state],
     target_class_id |-> word_id_to_class_id(limit_to_shortlist(target_word))]

\* the word that _propagate appends for a link, if it appends one
appended_words(link) ==
    IF IsNone(link) THEN <<eos_id>>
    ELSE IF IsMarker(Val(link).word) THEN <<>>
    ELSE <<link_word(Val(link).word)>>

\* A step function that is called for one token at a time.
propagate_step_calls_per_token(toks, link) ==
    IF Len(appended_words(link)) = 0 THEN <<>>
    ELSE [i \in 1..Len(toks) |->
            step_function_call(<<toks[i]>>, appended_words(link)[1])]

\* the calls of self._step_function that _propagate(tokens, link) makes: one
\* in each _append_word
propagate_step_calls(toks, link) ==
    [k \in 1..Len(appended_words(link)) |->
        step_function_call(toks, appended_words(link)[k])]

\* A copy that takes the list object of the token for its own history.
history_of_copy_shared(i, n) == i

\* Token.copy: deepcopy(token.history) is a list object of its own.  Of the
\* list objects of a _propagate call, the first n are the histories of the n
\* source tokens, and this is the object of the history of the i-th copy.
history_of_copy(i, n) == n + i

\* The list objects of _propagate(tokens, link) when it returns: the copies
\* are made, and _append_word appends the word through the history reference
\* of each new token in turn.
RECURSIVE append_to_histories(_, _, _, _)
append_to_histories(objects, n, i, words) ==
    IF i > n \/ Len(words) = 0 THEN objects
    ELSE append_to_histories(
            [objects EXCEPT ![history_of_copy(i, n)] = Append(@, words[1])],
            n, i + 1, words)

propagate_histories(toks, link) ==
    LET n == Len(toks)
        sources == [i \in 1..n |-> toks[i].history]
        copies == [i \in 1..n |-> sources[i]]
    IN  append_to_histories(sources \o copies, n, 1, appended_words(link))

\* the tokens given to _propagate as they are when it returns
tokens_after_propagate(toks, link) ==
    [i \in 1..Len(toks) |->
        [toks[i] EXCEPT !.history = propagate_histories(toks, link)[i]]]

\* the record of one _propagate call
Propagation(node_id, toks, link) ==
    [node |-> node_id,
     link |-> link,
     tokens |-> toks,
     tokens_after |-> tokens_after_propagate(toks, link),
     new_tokens |-> propagate(toks, link, lm_scale, wi_penalty),
     step_calls |-> propagate_step_calls(toks, link)]

\* An update that stores the total of the last new token without comparing.
update_best_last(best, new_tokens) ==
    IF Len(new_tokens) = 0 THEN best
    ELSE new_tokens[Len(new_tokens)].total_logprob

\* link.end_node.best_logprob after the loop over the new tokens
RECURSIVE update_best(_, _)
update_best(best, new_tokens) ==
    IF Len(new_tokens) = 0 THEN best
    ELSE update_best(
            IF IsNone(best) \/ Val(Head(new_tokens).total_logprob) > Val(best)
            THEN Head(new_tokens).total_logprob ELSE best,
            Tail(new_tokens))

\* A loop that extends the token list of the node where the link starts.
RECURSIVE propagate_links_to_start(_, _, _, _, _, _)
propagate_links_to_start(node_id, links, node_tokens, toks, best, calls_) ==
    IF Len(links) = 0
    THEN [tokens |-> toks, best_logprob |-> best, propagations |-> calls_]
    ELSE LET link == Head(links)
             call == Propagation(node_id, node_tokens, Some(link))
         IN  propagate_links_to_start(
                node_id, Tail(links), call.tokens_after,
                [toks EXCEPT ![link.start_node] = @ \o call.new_tokens],
                [best EXCEPT ![link.end_node] = update_best(@, call.new_tokens)],
                Append(calls_, call))

\* the loop of decode() over node.out_links
RECURSIVE propagate_links(_, _, _, _, _, _)
propagate_links(node_id, links, node_tokens, toks, best, calls_) ==
    IF Len(links) = 0
    THEN [tokens |-> [toks EXCEPT ![node_id] = node_tokens],
          best_logprob |-> best,
          propagations |-> calls_]
    ELSE LET link == Head(links)
             call == Propagation(node_id, node_tokens, Some(link))
         IN  propagate_links(
                node_id, Tail(links), call.tokens_after,
                [toks EXCEPT ![link.end_node] = @ \o call.new_tokens],
                [best EXCEPT ![link.end_node] = update_best(@, call.new_tokens)],
                Append(calls_, call))

\* ----------------------------------------------------------------- pruning

\* The dict of _prune, as the list of its values in insertion order: a key
\* keeps the place where it was first inserted.
RECURSIVE recombine(_, _)
recombine(toks, new_tokens) ==
    IF Len(toks) = 0 THEN new_tokens
    ELSE LET token == Head(toks)
             at == {i \in 1..Len(new_tokens) :
                        new_tokens[i].recombination_hash = token.recombination_hash}
         IN  IF at = {} THEN recombine(Tail(toks), Append(new_tokens, token))
             ELSE LET i == CHOOSE j \in at : TRUE
                  IN  IF Val(token.total_logprob) > Val(new_tokens[i].total_logprob)
                      THEN recombine(Tail(toks), [new_tokens EXCEPT ![i] = token])
                      ELSE recombine(Tail(toks), new_tokens)

\* sorted(..., key=total_logprob, reverse=True): a stable sort, so tokens of
\* equal total keep their order.
RECURSIVE insert_sorted(_, _)
insert_sorted(sorted, token) ==
    IF Len(sorted) = 0 THEN <<token>>
    ELSE IF Val(Head(sorted).total_logprob) >= Val(token.total_logprob)
         THEN <<Head(sorted)>> \o insert_sorted(Tail(sorted), token)
         ELSE <<token>> \o sorted

RECURSIVE sort_descending(_, _)
sort_descending(toks, sorted) ==
    IF Len(toks) = 0 THEN sorted
    ELSE sort_descending(Tail(toks), insert_sorted(sorted, Head(toks)))

sorted_by_total(toks) == sort_descending(toks, <<>>)

\* time_begin of _prune, as a position 1..Len(sorted_nodes)
time_begin(node_id) ==
    IF IsNone(lattice.time[node_id])
    THEN CHOOSE i \in 1..Len(sorted_nodes) : sorted_nodes[i] = node_id
    ELSE LET later == {i \in 1..Len(sorted_nodes) :
                          /\ ~IsNone(lattice.time[sorted_nodes[i]])
                          /\ Val(lattice.time[sorted_nodes[i]]) >= Val(lattice.time[node_id])}
         IN  IF later = {} THEN Len(sorted_nodes)
             ELSE CHOOSE i \in later : \A j \in later : i <= j

\* the nodes whose best_logprob the beam of node_id is compared to
beam_nodes(node_id) ==
    {sorted_nodes[i] : i \in time_begin(node_id)..Len(sorted_nodes)}

\* max(iter_node.best_logprob for ... if iter_node.best_logprob is not None)
beam_best_logprob(node_id) ==
    LET set == {Val(best_logprob[n]) : n \in {m \in beam_nodes(node_id) :
                                                ~IsNone(best_logprob[m])}}
    IN  CHOOSE b \in set : \A c \in set : b >= c

\* A beam loop that runs down to index 0 (token_index >= 0), and so may
\* drop the best token too.
RECURSIVE beam_prune_from_first(_, _)
beam_prune_from_first(new_tokens, threshold) ==
    IF (Len(new_tokens) - 1 >= 0)
       /\ Val(new_tokens[Len(new_tokens)].total_logprob) <= threshold
    THEN beam_prune_from_first(SubSeq(new_tokens, 1, Len(new_tokens) - 1), threshold)
    ELSE new_tokens

\* the while loop of _prune
RECURSIVE beam_prune(_, _)
beam_prune(new_tokens, threshold) ==
    IF (Len(new_tokens) - 1 >= 1)
       /\ Val(new_tokens[Len(new_tokens)].total_logprob) <= threshold
    THEN beam_prune(SubSeq(new_tokens, 1, Len(new_tokens) - 1), threshold)
    ELSE new_tokens

\* A limit that is off by one: new_tokens[max_tokens_per_node + 1:] = []
limit_tokens_off_by_one(new_tokens) ==
    IF IsNone(options.max_tokens_per_node) THEN new_tokens
    ELSE PyDeleteFrom(new_tokens, Val(options.max_tokens_per_node) + 1)

limit_tokens(new_tokens) ==
    IF IsNone(options.max_tokens_per_node) THEN new_tokens
    ELSE PyDeleteFrom(new_tokens, Val(options.max_tokens_per_node))

\* The locals of _prune(node) at its end.
prune(node_id) ==
    LET recombined == sorted_by_total(recombine(tokens[node_id], <<>>))
        best == IF IsNone(options.beam) THEN None
                ELSE Some(beam_best_logprob(node_id))
        threshold == IF IsNone(options.beam) THEN None
                     ELSE Some(Val(best) - Val(options.beam))
        beamed == IF IsNone(options.beam) THEN recombined
                  ELSE beam_prune(recombined, Val(threshold))
    IN  [node |-> node_id,
         input |-> tokens[node_id],
         recombined |-> recombined,
         best_logprob |-> best,
         threshold |-> threshold,
         beamed |-> beamed,
         new_tokens |-> limit_tokens(beamed)]

\* ---------------------------------------------------------------- lattices

Link(start_node, end_node, word, ac_logprob, lm_logprob) ==
    [start_node |-> start_node, end_node |-> end_node, word |-> word,
     ac_logprob |-> ac_logprob, lm_logprob |-> lm_logprob]

\* Two paths of two links each, the first with three parallel links; no times.
DiamondLattice ==
    [num_nodes |-> 4,
     links |-> <<Link(0, 1, "a", Some(0 - 1), Some(0 - 1)),
                 Link(0, 1, "b", Some(0 - 2), None),
                 Link(0, 1, "c", Some(0), None),
                 Link(0, 2, "b", Some(0 - 2), Some(0 - 1)),
                 Link(1, 3, "a", None, Some(0 - 1)),
                 Link(2, 3, "a", Some(0 - 1), None)>>,
     time |-> [n \in 0..3 |-> None],
     initial_node |-> 0, final_node |-> 3,
     lm_scale |-> None, wi_penalty |-> None]

\* A chain with marker links, an out-of-vocabulary word and an
\* out-of-shortlist word; every node has a time.
MarkerLattice ==
    [num_nodes |-> 4,
     links |-> <<Link(0, 1, "!NULL", None, Some(0 - 1)),
                 Link(1, 2, "zz", Some(0 - 1), Some(0 - 2)),
                 Link(1, 2, "c", Some(0 - 2), Some(0 - 1)),
                 Link(1, 2, "a", Some(0 - 2), Some(0 - 1)),
                 Link(2, 3, "!EXIT", Some(0 - 1), None)>>,
     time |-> [n \in 0..3 |-> Some(n)],
     initial_node |-> 0, final_node |-> 3,
     lm_scale |-> Some(2), wi_penalty |-> Some(0 - 1)]

\* The final node has no incoming link, and node 2 is a node that no link
\* from the initial node leads to.
UnreachableLattice ==
    [num_nodes |-> 4,
     links |-> <<Link(0, 1, "a", Some(0 - 1), None),
                 Link(0, 1, "b", Some(0 - 1), None),
                 Link(2, 3, "a", Some(0 - 1), None)>>,
     time |-> [n \in 0..3 |-> None],
     initial_node |-> 0, final_node |-> 3,
     lm_scale |-> None, wi_penalty |-> None]

\* Times that follow the links, with a word insertion penalty above zero:
\* a token gains from a longer path.  Node 2 is earlier than node 1.
TimedLattice ==
    [num_nodes |-> 4,
     links |-> <<Link(0, 1, "a", Some(0 - 3), None),
                 Link(0, 1, "b", Some(0 - 3), None),
                 Link(0, 2, "b", Some(0 - 1), None),
                 Link(1, 3, "a", Some(0), None),
                 Link(2, 3, "b", Some(0 - 4), None)>>,
     time |-> [n \in 0..3 |-> IF n = 1 THEN Some(2)
                              ELSE IF n = 2 THEN Some(1) ELSE Some(n)],
     initial_node |-> 0, final_node |-> 3,
     lm_scale |-> None, wi_penalty |-> Some(4)]

\* The same lattice with no time given for node 2.
PartlyTimedLattice ==
    [TimedLattice EXCEPT !.time = [n \in 0..3 |-> IF n = 2 THEN None ELSE Some(n)]]

\* The final node has an outgoing link.
PastFinalLattice ==
    [num_nodes |-> 4,
     links |-> <<Link(0, 1, "a", Some(0 - 1), None),
                 Link(0, 1, "b", Some(0 - 2), None),
                 Link(0, 2, "zz", Some(0 - 1), None),
                 Link(1, 2, "b", Some(0 - 1), None),
                 Link(1, 3, "c", Some(0 - 1), None),
                 Link(2, 3, "a", Some(0 - 1), None)>>,
     time |-> [n \in 0..3 |-> None],
     initial_node |-> 0, final_node |-> 2,
     lm_scale |-> None, wi_penalty |-> Some(1)]

\* A chain of two words, the first out of two parallel links, with a word
\* insertion penalty above zero.
ChainLattice ==
    [num_nodes |-> 3,
     links |-> <<Link(0, 1, "a", Some(0 - 3), None),
                 Link(0, 1, "b", Some(0 - 3), None),
                 Link(1, 2, "b", Some(0), None)>>,
     time |-> [n \in 0..2 |-> None],
     initial_node |-> 0, final_node |-> 2,
     lm_scale |-> None, wi_penalty |-> Some(4)]

\* One path: a shortlist word, a marker, a word that is not in the
\* vocabulary and a vocabulary word that is not in the shortlist.
SinglePathLattice ==
    [num_nodes |-> 5,
     links |-> <<Link(0, 1, "a", Some(0 - 1), Some(0 - 2)),
                 Link(1, 2, "!NULL", Some(0 - 1), None),
                 Link(2, 3, "zz", Some(0 - 2), Some(0 - 1)),
                 Link(3, 4, "c", None, Some(0 - 1))>>,
     time |-> [n \in 0..4 |-> None],
     initial_node |-> 0, final_node |-> 4,
     lm_scale |-> None, wi_penalty |-> None]

Lattices == {DiamondLattice, MarkerLattice, UnreachableLattice, TimedLattice,
             PartlyTimedLattice, PastFinalLattice, ChainLattice, SinglePathLattice}

\* the nodes that a path of links from the initial node leads to
RECURSIVE ReachableFrom(_, _)
ReachableFrom(lat, set) ==
    LET next == set \cup {lat.links[i].end_node :
                            i \in {j \in 1..Len(lat.links) : lat.links[j].start_node \in set}}
    IN  IF next = set THEN set ELSE ReachableFrom(lat, next)

\* the sequences that list every node of set once
Orderings(set) ==
    {order \in [1..Cardinality(set) -> set] :
        \A i, j \in 1..Cardinality(set) : i # j => order[i] # order[j]}

\* lattice.sorted_nodes(): a topological order, consistent with the direction
\* of the links, of the nodes of the lattice; the nodes that cannot be
\* reached from the initial node may be left out.
SortedNodes(lat) ==
    {order \in Orderings(0..(lat.num_nodes - 1))
                \cup Orderings(ReachableFrom(lat, {lat.initial_node})) :
        \A k \in 1..Len(lat.links) :
            \A i, j \in 1..Len(order) :
                (order[i] = lat.links[k].start_node /\ order[j] = lat.links[k].end_node)
                    => i < j}

\* ------------------------------------------------------- the decode command

\* --lattice-list has at most this many lines
MaxListLines == 3
\* --num-jobs is drawn from 0..MaxJobs, and --job from -1..MaxJobs
MaxJobs == 3

\* A path is the sequence of its characters.
Whitespace == {" ", "\n"}

RECURSIVE lstrip(_)
lstrip(path) ==
    IF Len(path) > 0 /\ path[1] \in Whitespace THEN lstrip(Tail(path)) ELSE path

RECURSIVE rstrip(_)
rstrip(path) ==
    IF Len(path) > 0 /\ path[Len(path)] \in Whitespace
    THEN rstrip(SubSeq(path, 1, Len(path) - 1)) ELSE path

\* path.strip()
strip(path) == rstrip(lstrip(path))

\* The list of lattices before the jobs are looked at: the paths of
\* --lattices and then the lines of --lattice-list, each one stripped, and
\* the empty ones left out.
combined_lattices(lattices_arg, lattice_list) ==
    LET lattices == IF IsNone(lattice_list) THEN lattices_arg
                    ELSE lattices_arg \o Val(lattice_list)
        stripped == [i \in 1..Len(lattices) |-> strip(lattices[i])]
    IN  SelectSeq(stripped, LAMBDA x : Len(x) > 0)

\* s[start::step] for a start that is not negative and a step of 1 or more,
\* with start counted from 0
RECURSIVE PyEveryNth(_, _, _)
PyEveryNth(s, start, step) ==
    IF start >= Len(s) THEN <<>>
    ELSE <<s[start + 1]>> \o PyEveryNth(s, start + step, step)

\* A batch that starts one lattice late: lattices[job + 1::num_jobs]
job_batch_from_next(lattices, job, num_jobs) == PyEveryNth(lattices, job + 1, num_jobs)

\* lattices[args.job::args.num_jobs]
job_batch(lattices, job, num_jobs) == PyEveryNth(lattices, job, num_jobs)

\* the lines that a lattice list or the command line may have: a path before
\* a newline, a path after a blank, and a blank line
RawPaths == {<<"a", "\n">>, <<" ", "b">>, <<" ", "\n">>}

SeqsUpTo(set, n) == UNION {[1..k -> set] : k \in 0..n}

\* the decode command when it has parsed its arguments
Commands ==
    {[lattices_arg |-> lattices_arg,
      lattice_list |-> lattice_list,
      num_jobs |-> num_jobs,
      job |-> job,
      pc |-> "start",
      lattices |-> <<>>,
      index |-> 0,
      decoded |-> <<>>,
      exit_status |-> None] :
        lattices_arg \in SeqsUpTo(RawPaths, 1),
        lattice_list \in {None} \cup {Some(lines) : lines \in SeqsUpTo(RawPaths, MaxListLines)},
        num_jobs \in 0..MaxJobs,
        job \in (0 - 1)..MaxJobs}

\* no decode command is running
NoCommand ==
    [lattices_arg |-> <<>>, lattice_list |-> None, num_jobs |-> 1, job |-> 0,
     pc |-> "none", lattices |-> <<>>, index |-> 0, decoded |-> <<>>,
     exit_status |-> None]

\* --------------------------------------------------------- decoding options

OptionalRange(low, high) == {None} \cup {Some(v) : v \in low..high}

\* decoding_options as the decode command builds it from its arguments when
\* the pruning options and --wi-penalty vary
PruningOptions ==
    {[nnlm_weight |-> 1,
      lm_scale |-> None,
      wi_penalty |-> wi,
      unk_penalty |-> None,
      has_oos_logprobs |-> FALSE,
      unk_from_lattice |-> FALSE,
      linear_interpolation |-> FALSE,
      max_tokens_per_node |-> max_tokens,
      beam |-> beam,
      recombination_order |-> order] :
        wi \in {None, Some(0 - 2)},
        max_tokens \in OptionalRange(0 - 1, MaxTokens),
        beam \in OptionalRange(0, MaxBeam),
        order \in OptionalRange(0, MaxOrder)}

\* decoding_options when the options of the scores vary and nothing is
\* pruned; has_oos_logprobs is --shortlist with a vocabulary that has unigram
\* probabilities.  The linear interpolation is modelled for the weights 0
\* and 1, whose result is a whole number.
ScoringOptions ==
    {[nnlm_weight |-> interpolation[1],
      lm_scale |-> scale,
      wi_penalty |-> None,
      unk_penalty |-> unk,
      has_oos_logprobs |-> oos,
      unk_from_lattice |-> from_lattice,
      linear_interpolation |-> interpolation[2],
      max_tokens_per_node |-> None,
      beam |-> None,
      recombination_order |-> None] :
        interpolation \in ({0, 1, 2} \X {FALSE}) \cup ({0, 1} \X {TRUE}),
        scale \in {None, Some(3)},
        unk \in {None, Some(0 - 5)},
        oos \in BOOLEAN,
        from_lattice \in BOOLEAN}

DecodingOptions == PruningOptions \cup ScoringOptions

NoPruning ==
    [node |-> 0 - 1, input |-> <<>>, recombined |-> <<>>, best_logprob |-> None,
     threshold |-> None, beamed |-> <<>>, new_tokens |-> <<>>]

NoOutcome == [pc |-> "none", result |-> <<>>, error |-> ""]

\* A decoder has been constructed and a lattice has been read.
Init ==
    /\ options \in DecodingOptions
    /\ lattice \in Lattices
    /\ node_order \in SortedNodes(lattice)
    /\ best_logprob = [n \in Nodes |-> None]
    /\ tokens = [n \in Nodes |-> <<>>]
    /\ sorted_nodes = <<>>
    /\ lm_scale = 1
    /\ wi_penalty = 0
    /\ node_index = 0
    /\ pc = "idle"
    /\ result = <<>>
    /\ error = ""
    /\ calls = 0
    /\ pruning = NoPruning
    /\ first_outcome = NoOutcome
    /\ propagations = <<>>
    /\ command = NoCommand

\* ----------------------------------------------------------------- decode()

\* A scale that is taken from the lattice first.
resolve_lm_scale_lattice_first ==
    IF ~IsNone(lattice.lm_scale) THEN Val(lattice.lm_scale)
    ELSE IF ~IsNone(options.lm_scale) THEN Val(options.lm_scale)
    ELSE 1

resolve_lm_scale ==
    IF ~IsNone(options.lm_scale) THEN Val(options.lm_scale)
    ELSE IF ~IsNone(lattice.lm_scale) THEN Val(lattice.lm_scale)
    ELSE 1

\* The first if statement assigns the decoder's penalty; the second one, an
\* if with an else, then assigns the lattice's penalty or 0.
resolve_wi_penalty ==
    LET after_first_if == IF ~IsNone(options.wi_penalty)
                          THEN options.wi_penalty ELSE None
    IN  IF ~IsNone(lattice.wi_penalty) THEN Val(lattice.wi_penalty)
        ELSE 0

initial_token(lm_scale_, wi_penalty_) ==
    finalize(Token(<<sos_id>>, InitialRecurrentState, 0, 0, 0), lm_scale_, wi_penalty_)

Outcome(pc_, result_, error_) == [pc |-> pc_, result |-> result_, error |-> error_]

\* how a decode() call that ends now is remembered
Remember(pc_, result_, error_) ==
    IF calls = 1 THEN Outcome(pc_, result_, error_) ELSE first_outcome

\* decode(lattice) is called, for the first time or again on the same lattice
\* object: the code up to the for loop.
DecodeBegin ==
    /\ pc \in {"idle", "returned", "failed"}
    /\ calls < MaxDecodes
    /\ LET token == initial_token(resolve_lm_scale, resolve_wi_penalty)
       IN  /\ lm_scale' = resolve_lm_scale
           /\ wi_penalty' = resolve_wi_penalty
           /\ tokens' = [n \in Nodes |->
                            IF n = lattice.initial_node THEN <<token>> ELSE <<>>]
           /\ best_logprob' = [best_logprob EXCEPT
                                 ![lattice.initial_node] = token.total_logprob]
    /\ sorted_nodes' = node_order
    /\ node_index' = 1
    /\ pc' = "loop"
    /\ result' = <<>>
    /\ error' = ""
    /\ calls' = calls + 1
    /\ propagations' = <<>>
    /\ UNCHANGED <<command, options, lattice, node_order, pruning, first_outcome>>

InLoop == pc = "loop" /\ node_index <= Len(sorted_nodes)

node == sorted_nodes[node_index]

\* A loop that skips a node without tokens (continue) instead of failing.
SkipNodeWithoutTokens ==
    /\ InLoop
    /\ Len(tokens[node]) = 0
    /\ node_index' = node_index + 1
    /\ UNCHANGED <<command, options, lattice, node_order, best_logprob, tokens, sorted_nodes,
                   lm_scale, wi_penalty, pc, result, error, calls, pruning,
                   first_outcome, propagations>>

\* the first assert of the loop body fails
NodeWithoutTokens ==
    /\ InLoop
    /\ Len(tokens[node]) = 0
    /\ pc' = "failed"
    /\ error' = "AssertionError"
    /\ first_outcome' = Remember("failed", <<>>, "AssertionError")
    /\ UNCHANGED <<command, options, lattice, node_order, best_logprob, tokens, sorted_nodes,
                   lm_scale, wi_penalty, node_index, result, calls, pruning,
                   propagations>>

\* self._prune(node) and the assert after it
PruneNode ==
    /\ InLoop
    /\ Len(tokens[node]) > 0
    /\ pruning' = prune(node)
    /\ tokens' = [tokens EXCEPT ![node] = pruning'.new_tokens]
    /\ IF Len(pruning'.new_tokens) = 0
       THEN /\ pc' = "failed"
            /\ error' = "AssertionError"
            /\ first_outcome' = Remember("failed", <<>>, "AssertionError")
       ELSE /\ pc' = "pruned"
            /\ UNCHANGED <<error, first_outcome>>
    /\ UNCHANGED <<command, options, lattice, node_order, best_logprob, sorted_nodes,
                   lm_scale, wi_penalty, node_index, result, calls, propagations>>

\* A return of the propagated tokens as they are, without sorting them.
final_tokens_unsorted(node_tokens) ==
    propagate(node_tokens, None, lm_scale, wi_penalty)

\* what decode() returns at the final node
final_tokens(node_tokens) ==
    sorted_by_total(propagate(node_tokens, None, lm_scale, wi_penalty))

ReturnAtFinalNode ==
    /\ pc = "pruned"
    /\ node = lattice.final_node
    /\ result' = final_tokens(tokens[node])
    /\ tokens' = [tokens EXCEPT ![node] = tokens_after_propagate(@, None)]
    /\ propagations' = Append(propagations, Propagation(node, tokens[node], None))
    /\ pc' = "returned"
    /\ first_outcome' = Remember("returned", result', "")
    /\ UNCHANGED <<command, options, lattice, node_order, best_logprob, sorted_nodes,
                   lm_scale, wi_penalty, node_index, error, calls, pruning>>

PropagateNode ==
    /\ pc = "pruned"
    /\ node # lattice.final_node
    /\ LET after == propagate_links(node, out_links(node), tokens[node], tokens,
                                    best_logprob, propagations)
       IN  /\ tokens' = after.tokens
           /\ best_logprob' = after.best_logprob
           /\ propagations' = after.propagations
    /\ node_index' = node_index + 1
    /\ pc' = "loop"
    /\ UNCHANGED <<command, options, lattice, node_order, sorted_nodes, lm_scale, wi_penalty,
                   result, error, calls, pruning, first_outcome>>

\* A loop end that fails as the assertions of the loop body do.
loop_end_assertion == "AssertionError"

\* the exception raised after the loop
loop_end_error == "InputError"

FinalNodeNotReached ==
    /\ pc = "loop"
    /\ node_index > Len(sorted_nodes)
    /\ pc' = "failed"
    /\ error' = loop_end_error
    /\ first_outcome' = Remember("failed", <<>>, loop_end_error)
    /\ UNCHANGED <<command, options, lattice, node_order, best_logprob, tokens, sorted_nodes,
                   lm_scale, wi_penalty, node_index, result, calls, pruning,
                   propagations>>

Next ==
    \/ DecodeBegin
    \/ NodeWithoutTokens
    \/ PruneNode
    \/ ReturnAtFinalNode
    \/ PropagateNode
    \/ FinalNodeNotReached

Spec == Init /\ [][Next]_vars

\* ------------------------------------------------ decode(args), the command

\* the list of lattices that the command builds from its arguments
command_lattices == combined_lattices(command.lattices_arg, command.lattice_list)

\* "Invalid number of jobs specified": sys.exit(1)
InvalidNumJobs ==
    /\ command.pc = "start"
    /\ command.num_jobs < 1
    /\ command' = [command EXCEPT !.lattices = command_lattices,
                                  !.pc = "exited",
                                  !.exit_status = Some(1)]
    /\ UNCHANGED decoder_vars

\* "Invalid job specified": sys.exit(1)
InvalidJob ==
    /\ command.pc = "start"
    /\ ~(command.num_jobs < 1)
    /\ (command.job < 0) \/ (command.job > command.num_jobs - 1)
    /\ command' = [command EXCEPT !.lattices = command_lattices,
                                  !.pc = "exited",
                                  !.exit_status = Some(1)]
    /\ UNCHANGED decoder_vars

\* the command keeps the lattices of its job and comes to its loop
SelectBatch ==
    /\ command.pc = "start"
    /\ ~(command.num_jobs < 1)
    /\ ~((command.job < 0) \/ (command.job > command.num_jobs - 1))
    /\ command' = [command EXCEPT
                      !.lattices = job_batch(command_lattices, command.job,
                                             command.num_jobs),
                      !.pc = "loop"]
    /\ UNCHANGED decoder_vars

\* One turn of the loop: the lattice is read and decoded, and its best
\* paths are written.
DecodeLattice ==
    /\ command.pc = "loop"
    /\ command.index < Len(command.lattices)
    /\ command' = [command EXCEPT
                      !.decoded = Append(@, command.lattices[command.index + 1]),
                      !.index = @ + 1]
    /\ UNCHANGED decoder_vars

\* One turn of the loop in which reading or decoding the lattice raises an
\* exception, which the command does not catch.
DecodeLatticeRaises ==
    /\ command.pc = "loop"
    /\ command.index < Len(command.lattices)
    /\ command' = [command EXCEPT !.pc = "raised"]
    /\ UNCHANGED decoder_vars

\* the loop has gone through the lattices, and the command returns
CommandReturns ==
    /\ command.pc = "loop"
    /\ command.index >= Len(command.lattices)
    /\ command' = [command EXCEPT !.pc = "done"]
    /\ UNCHANGED decoder_vars

\* the options that the command gives the decoder when it is run with no
\* decoding or pruning argument
DefaultOptions ==
    [nnlm_weight |-> 1, lm_scale |-> None, wi_penalty |-> None,
     unk_penalty |-> None, has_oos_logprobs |-> FALSE, unk_from_lattice |-> FALSE,
     linear_interpolation |-> FALSE, max_tokens_per_node |-> None, beam |-> None,
     recombination_order |-> None]

\* The command has parsed its arguments and built the decoder; no lattice
\* has been read.
CommandInit ==
    /\ command \in Commands
    /\ options = DefaultOptions
    /\ lattice = ChainLattice
    /\ node_order \in SortedNodes(ChainLattice)
    /\ best_logprob = [n \in Nodes |-> None]
    /\ tokens = [n \in Nodes |-> <<>>]
    /\ sorted_nodes = <<>>
    /\ lm_scale = 1
    /\ wi_penalty = 0
    /\ node_index = 0
    /\ pc = "idle"
    /\ result = <<>>
    /\ error = ""
    /\ calls = 0
    /\ pruning = NoPruning
    /\ first_outcome = NoOutcome
    /\ propagations = <<>>

CommandNext ==
    \/ InvalidNumJobs
    \/ InvalidJob
    \/ SelectBatch
    \/ DecodeLattice
    \/ DecodeLatticeRaises
    \/ CommandReturns

CommandSpec == CommandInit /\ [][CommandNext]_vars

\* ------------------------------------------------------------------ claims

Decoding == pc \in {"loop", "pruned", "returned", "failed"}

IsSortedDescending(toks) ==
    \A i \in 1..(Len(toks) - 1) :
        Val(toks[i].total_logprob) >= Val(toks[i + 1].total_logprob)

\* new is old propagated to the end of the sentence: the same path scores,
\* and the history with the end-of-sentence id appended
IsEndOfSentenceOf(new, old) ==
    /\ new.history = Append(old.history, eos_id)
    /\ new.ac_logprob = old.ac_logprob
    /\ new.lat_lm_logprob = old.lat_lm_logprob
    /\ ~IsNone(new.total_logprob)

\* C1: decode() returns only at the final node of the lattice, and the list
\* it returns holds each token that pruning left at the final node once,
\* propagated to the end of the sentence, in descending order of
\* total_logprob.
C1_ReturnsSortedFinalTokens ==
    pc = "returned" =>
        /\ node_index <= Len(sorted_nodes)
        /\ sorted_nodes[node_index] = lattice.final_node
        /\ pruning.node = lattice.final_node
        /\ tokens[lattice.final_node] = pruning.new_tokens
        /\ Len(result) = Len(pruning.new_tokens)
        /\ IsSortedDescending(result)
        /\ \E p \in Orderings(1..Len(result)) :
              \A i \in 1..Len(result) :
                  IsEndOfSentenceOf(result[i], pruning.new_tokens[p[i]])

\* decode() has returned several tokens, and sorting them changed the order
\* in which the final node held them.
C1_Witness ==
    /\ pc = "returned"
    /\ Len(result) >= 2
    /\ \E i \in 1..Len(result) :
          ~IsEndOfSentenceOf(result[i], tokens[lattice.final_node][i])
    /\ Val(result[1].total_logprob) > Val(result[Len(result)].total_logprob)

\* the penalty of a decode call as the documentation resolves it
documented_wi_penalty ==
    IF ~IsNone(options.wi_penalty) THEN Val(options.wi_penalty)
    ELSE IF ~IsNone(lattice.wi_penalty) THEN Val(lattice.wi_penalty)
    ELSE 0

\* the tokens of the token table and of the returned list
AllTokens ==
    UNION {{tokens[n][i] : i \in 1..Len(tokens[n])} : n \in Nodes}
        \cup {result[i] : i \in 1..Len(result)}

\* C2: the word insertion penalty of a decode call is the decoder's when it
\* is set, else the lattice's when that is set, else 0, and it is the penalty
\* in the total_logprob of every token.
C2_DecoderPenaltyFirst ==
    Decoding =>
        /\ wi_penalty = documented_wi_penalty
        /\ \A token \in AllTokens :
              Val(token.total_logprob) =
                  token.ac_logprob + Val(token.lm_logprob) * lm_scale
                      + documented_wi_penalty * Len(token.history)

C4_EmptyNodeAborts ==
    [][(pc = "loop" /\ node_index <= Len(sorted_nodes)
            /\ Len(tokens[sorted_nodes[node_index]]) = 0)
        => (/\ pc' = "failed"
            /\ error' = "AssertionError"
            /\ node_index' = node_index
            /\ tokens' = tokens
            /\ result' = <<>>)]_vars

\* decode() failed at a node after the first one that is not the final node,
\* that no token reached and that was not pruned.
C4_Witness ==
    /\ pc = "failed"
    /\ error = "AssertionError"
    /\ node_index > 1
    /\ node_index <= Len(sorted_nodes)
    /\ sorted_nodes[node_index] # lattice.final_node
    /\ pruning.node # sorted_nodes[node_index]
    /\ Len(tokens[sorted_nodes[node_index]]) = 0
    /\ \E i \in (node_index + 1)..Len(sorted_nodes) : Len(tokens[sorted_nodes[i]]) = 0

Pruned == pruning.node >= 0

\* the last k entries of a history, all of them when it has fewer
LastEntries(history, k) ==
    SubSeq(history, Max2(Len(history) - k, 0) + 1, Len(history))

SameSuffix(a, b) ==
    IF IsNone(options.recombination_order) THEN a.history = b.history
    ELSE LastEntries(a.history, Val(options.recombination_order))
            = LastEntries(b.history, Val(options.recombination_order))

\* the tokens of toks that have the hash of token
HashGroup(toks, token) ==
    {i \in 1..Len(toks) : toks[i].recombination_hash = token.recombination_hash}

\* the first of the best tokens among those of toks that have the hash of token
BestOfGroup(toks, token) ==
    LET group == HashGroup(toks, token)
        best == {i \in group : \A j \in group :
                    Val(toks[i].total_logprob) >= Val(toks[j].total_logprob)}
    IN  toks[CHOOSE i \in best : \A j \in best : i <= j]

DistinctHashes(toks) ==
    \A i, j \in 1..Len(toks) :
        i # j => toks[i].recombination_hash # toks[j].recombination_hash

\* what _prune does to the hash groups of a node
RecombinationKeepsBest ==
    Pruned =>
        /\ DistinctHashes(pruning.recombined)
        /\ DistinctHashes(pruning.new_tokens)
        /\ \A i \in 1..Len(pruning.input) :
              \E j \in 1..Len(pruning.recombined) :
                  pruning.recombined[j] = BestOfGroup(pruning.input, pruning.input[i])
        /\ \A j \in 1..Len(pruning.recombined) :
              \E i \in 1..Len(pruning.input) : pruning.recombined[j] = pruning.input[i]

\* C5: after _prune no two tokens of the node have the same hash, of every
\* hash that was there recombination kept the best token (the first of them
\* when several are best), and so two tokens whose last recombination_order
\* history entries are the same are not both left.
C5_RecombinationCollapsesEqualSuffixes ==
    /\ RecombinationKeepsBest
    /\ Pruned =>
          \A i, j \in 1..Len(pruning.input) :
              (i # j /\ SameSuffix(pruning.input[i], pruning.input[j]))
                  => LET left == {k \in 1..Len(pruning.recombined) :
                                    SameSuffix(pruning.recombined[k], pruning.input[i])}
                     IN  /\ Cardinality(left) = 1
                         /\ \A k \in left :
                               /\ Val(pruning.recombined[k].total_logprob)
                                     >= Val(pruning.input[i].total_logprob)
                               /\ Val(pruning.recombined[k].total_logprob)
                                     >= Val(pruning.input[j].total_logprob)

\* what the beam leaves of a sorted list: its first token, and the others
\* that are above the threshold
AboveThreshold(toks, threshold) ==
    <<Head(toks)>>
        \o SelectSeq(Tail(toks), LAMBDA token : Val(token.total_logprob) > threshold)

\* C6: beam pruning keeps the first token of the sorted list whatever its
\* total, and of the others it drops just those whose total_logprob is at
\* most best_logprob - beam.
C6_BeamKeepsBestToken ==
    (Pruned /\ ~IsNone(options.beam)) =>
        /\ Val(pruning.threshold) = Val(pruning.best_logprob) - Val(options.beam)
        /\ IsSortedDescending(pruning.recombined)
        /\ pruning.beamed = AboveThreshold(pruning.recombined, Val(pruning.threshold))
        /\ pruning.beamed[1] = pruning.recombined[1]
        /\ \A i \in 1..Len(pruning.recombined) :
              Val(pruning.recombined[1].total_logprob)
                  >= Val(pruning.recombined[i].total_logprob)

\* The beam dropped every token but the first, whose own total is not above
\* the threshold.
C6_Witness ==
    /\ Pruned
    /\ ~IsNone(options.beam)
    /\ Len(pruning.recombined) >= 2
    /\ Len(pruning.beamed) = 1
    /\ Val(pruning.recombined[1].total_logprob) <= Val(pruning.threshold)
    /\ pc = "pruned"

IsPrefix(short, long) ==
    /\ Len(short) <= Len(long)
    /\ short = SubSeq(long, 1, Len(short))

C8_DecodeCallsIndependent ==
    (calls >= 2 /\ pc \in {"returned", "failed"}) =>
        Outcome(pc, result, error) = first_outcome

\* the greatest best_logprob among the nodes of set that have one
MaxBestLogprob(set) ==
    LET values == {Val(best_logprob[n]) : n \in {m \in set : ~IsNone(best_logprob[m])}}
    IN  CHOOSE b \in values : \A c \in values : b >= c

\* the nodes, among those decode() goes through, at the time of node_id or later
AtSameOrLaterTime(node_id) ==
    {sorted_nodes[i] : i \in {j \in 1..Len(sorted_nodes) :
        /\ ~IsNone(lattice.time[sorted_nodes[j]])
        /\ Val(lattice.time[sorted_nodes[j]]) >= Val(lattice.time[node_id])}}

\* the nodes at the position of node_id in sorted_nodes or after it
AtSameOrLaterPosition(node_id) ==
    {sorted_nodes[i] : i \in {j \in 1..Len(sorted_nodes) :
        \E k \in 1..j : sorted_nodes[k] = node_id}}

\* C9: the best_logprob that the beam of a node is measured from is the
\* greatest best_logprob of the nodes whose time is the node's time or later
\* when the node has a time, and of the nodes at its position or after it in
\* sorted_nodes when it has none.
C9_BeamComparesSameOrLaterTime ==
    (pc = "pruned" /\ ~IsNone(options.beam)) =>
        Val(pruning.best_logprob) =
            IF IsNone(lattice.time[pruning.node])
            THEN MaxBestLogprob(AtSameOrLaterPosition(pruning.node))
            ELSE MaxBestLogprob(AtSameOrLaterTime(pruning.node))

\* C10: the hash of a token is the hash of the last recombination_order
\* entries of its history (of all of them when it has fewer), for every
\* order from 0 on, and of the whole history when the order is None.
C10_HashOfLastOrderEntries ==
    \A token \in AllTokens :
        token.recombination_hash =
            IF IsNone(options.recombination_order) THEN Some(HashTuple(token.history))
            ELSE Some(HashTuple(LastEntries(token.history,
                                            Val(options.recombination_order))))

\* node n has not been pruned in the decode() call that is under way
NotYetPruned(n) ==
    \A i \in 1..Len(sorted_nodes) :
        sorted_nodes[i] = n =>
            \/ i > node_index
            \/ (i = node_index /\ pc \in {"loop", "failed"})

\* the greatest total_logprob of a list of tokens that is not empty
MaxTotal(toks) ==
    CHOOSE b \in {Val(toks[i].total_logprob) : i \in 1..Len(toks)} :
        \A i \in 1..Len(toks) : b >= Val(toks[i].total_logprob)

BestIsMaxOfDeposited ==
    (calls = 1 /\ Decoding) =>
        \A n \in Nodes :
            (Len(tokens[n]) > 0 /\ NotYetPruned(n)) =>
                best_logprob[n] = Some(MaxTotal(tokens[n]))

BestNeverDecreases ==
    calls' = 1 =>
        \A n \in Nodes :
            ~IsNone(best_logprob[n]) =>
                /\ ~IsNone(best_logprob'[n])
                /\ Val(best_logprob'[n]) >= Val(best_logprob[n])

EndOfSentenceKeepsBest ==
    (pc = "pruned" /\ pc' = "returned") => best_logprob' = best_logprob

\* C11: in the first decode() of a lattice, whose nodes have no best_logprob
\* before it, the best_logprob of a node never decreases; while the tokens
\* of a node have not been pruned, its best_logprob is the greatest
\* total_logprob among them; and the propagation to the end of the sentence
\* at the final node changes no best_logprob.
C11_BestLogprobIsRunningMax ==
    /\ []BestIsMaxOfDeposited
    /\ [][BestNeverDecreases /\ EndOfSentenceKeepsBest]_vars

\* Several links have left tokens at a node that is not pruned yet, and the
\* last of them is not the best one.
C11_Witness ==
    /\ calls = 1
    /\ pc = "loop"
    /\ \E n \in Nodes :
          /\ NotYetPruned(n)
          /\ Len(tokens[n]) >= 3
          /\ best_logprob[n] = Some(MaxTotal(tokens[n]))
          /\ Val(tokens[n][Len(tokens[n])].total_logprob) < Val(best_logprob[n])
          /\ Val(tokens[n][1].total_logprob) < Val(best_logprob[n])

\* the value that is added for a score that a link may not have
Present(score) == IF IsNone(score) THEN 0 ELSE Val(score)

\* the _propagate calls of the decode() under way whose link is a marker
MarkerPropagations ==
    {k \in 1..Len(propagations) :
        /\ ~IsNone(propagations[k].link)
        /\ IsMarker(Val(propagations[k].link).word)}

\* C12: _propagate through a link whose word starts with '!' gives one new
\* token for each source token, with the link's acoustic and LM log
\* probabilities (those it has) added to ac_logprob and lat_lm_logprob and
\* with the history, the recurrent state and nn_lm_logprob of the source
\* token; it makes no call of the step function.
C12_MarkerLinkAddsScoresOnly ==
    \A k \in MarkerPropagations :
        LET call == propagations[k]
            link == Val(call.link)
        IN  /\ Len(call.new_tokens) = Len(call.tokens)
            /\ call.step_calls = <<>>
            /\ \A i \in 1..Len(call.tokens) :
                  /\ call.new_tokens[i].history = call.tokens[i].history
                  /\ call.new_tokens[i].state = call.tokens[i].state
                  /\ call.new_tokens[i].nn_lm_logprob = call.tokens[i].nn_lm_logprob
                  /\ call.new_tokens[i].ac_logprob
                        = call.tokens[i].ac_logprob + Present(link.ac_logprob)
                  /\ call.new_tokens[i].lat_lm_logprob
                        = call.tokens[i].lat_lm_logprob + Present(link.lm_logprob)

\* Tokens went through a marker link that has an LM log probability only,
\* and later several tokens that have read words went through a marker link
\* that has an acoustic log probability only.
C12_Witness ==
    \E k, m \in MarkerPropagations :
        /\ k < m
        /\ IsNone(Val(propagations[k].link).ac_logprob)
        /\ ~IsNone(Val(propagations[k].link).lm_logprob)
        /\ IsNone(Val(propagations[m].link).lm_logprob)
        /\ ~IsNone(Val(propagations[m].link).ac_logprob)
        /\ Len(propagations[m].tokens) >= 2
        /\ \A i \in 1..Len(propagations[m].tokens) :
              /\ Len(propagations[m].tokens[i].history) >= 2
              /\ propagations[m].tokens[i].nn_lm_logprob < 0
              /\ Len(propagations[m].tokens[i].state) >= 1

\* the hash and the total of token are set, and they are those of its
\* history and scores as they are now
Finalized(token) ==
    /\ ~IsNone(token.recombination_hash)
    /\ ~IsNone(token.total_logprob)
    /\ token.recombination_hash
          = Some(HashTuple(limited_history(token.history, options.recombination_order)))
    /\ token.total_logprob
          = Some(token.ac_logprob
                    + interpolate(token, options.nnlm_weight,
                                  options.linear_interpolation) * lm_scale
                    + wi_penalty * Len(token.history))

AllFinalized(toks) == \A i \in 1..Len(toks) : Finalized(toks[i])

\* C13: every token of the token table is finalized at every point of a
\* decode, and so is every token that _prune compares and sorts, that
\* _propagate is given and returns, and that decode() sorts and returns.
C13_TableTokensAreFinalized ==
    Decoding =>
        /\ \A n \in Nodes : AllFinalized(tokens[n])
        /\ Pruned =>
              /\ AllFinalized(pruning.input)
              /\ AllFinalized(pruning.recombined)
              /\ AllFinalized(pruning.new_tokens)
        /\ \A k \in 1..Len(propagations) :
              /\ AllFinalized(propagations[k].tokens)
              /\ AllFinalized(propagations[k].new_tokens)
        /\ AllFinalized(result)

\* _prune has compared several tokens that have gone through two links, and
\* has dropped some of them.
C13_Witness ==
    /\ pc = "pruned"
    /\ Len(pruning.input) >= 2
    /\ Len(pruning.input) > Len(pruning.new_tokens)
    /\ \A i \in 1..Len(pruning.input) : Len(pruning.input[i].history) >= 3
    /\ \E i \in 1..Len(pruning.input) :
          /\ pruning.input[i].ac_logprob < 0
          /\ pruning.input[i].lat_lm_logprob < 0
          /\ pruning.input[i].nn_lm_logprob < 0
    /\ tokens[pruning.node] = pruning.new_tokens

\* the tokens that _propagate has returned in the decode() under way
PropagatedTokens ==
    UNION {{propagations[k].new_tokens[i] : i \in 1..Len(propagations[k].new_tokens)} :
                k \in 1..Len(propagations)}

\* C14: the LM scale of a decode call is the decoder's lm_scale when it is
\* set, else the lattice's when that is set, else 1, and the total_logprob of
\* every token of the decode is computed with that scale.
C14_DecoderScaleFirst ==
    Decoding =>
        /\ lm_scale = IF ~IsNone(options.lm_scale) THEN Val(options.lm_scale)
                      ELSE IF ~IsNone(lattice.lm_scale) THEN Val(lattice.lm_scale)
                      ELSE 1
        /\ \A token \in AllTokens \cup PropagatedTokens :
              Val(token.total_logprob) =
                  token.ac_logprob + Val(token.lm_logprob) * lm_scale
                      + wi_penalty * Len(token.history)

\* decode() has returned a token with an LM log probability that is not 0,
\* for a decoder and a lattice that both have an LM scale, not the same one.
C14_Witness ==
    /\ pc = "returned"
    /\ ~IsNone(options.lm_scale)
    /\ ~IsNone(lattice.lm_scale)
    /\ Val(options.lm_scale) # Val(lattice.lm_scale)
    /\ lm_scale = Val(options.lm_scale)
    /\ \E i \in 1..Len(result) : Val(result[i].lm_logprob) < 0

\* the words, network log probabilities and overrides that C15 is checked for
UnkWords == (0..(Len(VocabularyWords) - 1)) \cup {0 - i : i \in 1..Len(LiteralWords)}

UnkLogprobs == (0 - 3)..0

UnkOverrides == {None, Some(0 - 5), Some(0)}

\* C15: _handle_unk_logprob returns network_logprob + oos_logprobs[word] when
\* there are out-of-shortlist probabilities and the word is a vocabulary id;
\* the override when there are, the word is not a vocabulary id and an
\* override is given; the override when there are none, the word is not a
\* shortlist id and an override is given; and network_logprob otherwise.
C15_UnkLogprobCases ==
    \A word \in UnkWords, network_logprob \in UnkLogprobs, override \in UnkOverrides :
        LET returned == handle_unk_logprob(word, network_logprob, override)
            redistribution == options.has_oos_logprobs
            given == ~IsNone(override)
            vocabulary_id == word >= 0
            shortlist_id == word >= 0 /\ in_shortlist(word)
        IN  /\ (redistribution /\ vocabulary_id)
                  => returned = network_logprob + OosLogprob(word)
            /\ (redistribution /\ ~vocabulary_id /\ given) => returned = Val(override)
            /\ (~redistribution /\ ~shortlist_id /\ given) => returned = Val(override)
            /\ (~redistribution /\ shortlist_id) => returned = network_logprob
            /\ (~vocabulary_id /\ ~given) => returned = network_logprob
            /\ (~redistribution /\ ~given) => returned = network_logprob

\* the _propagate calls of the decode() under way that appended word with
\* the override given, which each new token got as its NNLM log probability
OverrideUsed(word) ==
    {k \in 1..Len(propagations) :
        /\ appended_words(propagations[k].link) = <<word>>
        /\ ~IsNone(options.unk_penalty)
        /\ ~options.unk_from_lattice
        /\ \A i \in 1..Len(propagations[k].tokens) :
              propagations[k].new_tokens[i].nn_lm_logprob
                  = propagations[k].tokens[i].nn_lm_logprob + Val(options.unk_penalty)}

\* the _propagate calls that appended word and added out-of-shortlist
\* log probability logprob to what the network gave
OosAdded(word, logprob) ==
    {k \in 1..Len(propagations) :
        /\ appended_words(propagations[k].link) = <<word>>
        /\ \A i \in 1..Len(propagations[k].tokens) :
              LET call == propagations[k].step_calls[1]
              IN  propagations[k].new_tokens[i].nn_lm_logprob
                      = propagations[k].tokens[i].nn_lm_logprob
                          + StepLogprob(call.recurrent_state[i], call.input_word_ids[i],
                                        call.target_class_id)
                          + MembershipLogprob(call.input_word_ids[i])
                          + logprob}

\* With out-of-shortlist probabilities and an <unk> penalty, a decode has
\* appended a word that is not in the vocabulary, which got the penalty, and
\* a vocabulary word outside the shortlist, which got the network's log
\* probability and its out-of-shortlist log probability.
C15_Witness ==
    /\ options.has_oos_logprobs
    /\ OverrideUsed(LiteralWord("zz")) # {}
    /\ OosAdded(word_to_id("c"), OosLogprob(word_to_id("c"))) # {}
    /\ OosLogprob(word_to_id("c")) # 0

\* With no out-of-shortlist probabilities and an <unk> penalty, a decode has
\* appended a vocabulary word outside the shortlist, which got the penalty,
\* and a shortlist word, which got the network's log probability.
C15_WitnessNoRedistribution ==
    /\ ~options.has_oos_logprobs
    /\ OverrideUsed(word_to_id("c")) # {}
    /\ OosAdded(word_to_id("a"), 0) # {}
    /\ OverrideUsed(word_to_id("a")) = {}

\* the links of the path that starts at node n and takes the first link out
\* of every node
RECURSIVE PathFrom(_, _)
PathFrom(lat, n) ==
    LET out == SelectSeq(lat.links, LAMBDA link : link.start_node = n)
    IN  IF Len(out) = 0 THEN <<>>
        ELSE <<out[1]>> \o PathFrom(lat, out[1].end_node)

\* the lattice is one chain of links from the initial node to the final node
IsSinglePath(lat) ==
    /\ Len(lat.links) = lat.num_nodes - 1
    /\ \A i, j \in 1..Len(lat.links) :
          i # j => /\ lat.links[i].start_node # lat.links[j].start_node
                   /\ lat.links[i].end_node # lat.links[j].end_node
    /\ Len(PathFrom(lat, lat.initial_node)) = Len(lat.links)
    /\ PathFrom(lat, lat.initial_node)[Len(lat.links)].end_node = lat.final_node

\* the history entry of a word: its vocabulary id, or the word as it is
RECURSIVE WordsOf(_)
WordsOf(links) ==
    IF Len(links) = 0 THEN <<>>
    ELSE <<IF InVocabulary(links[1].word) THEN word_to_id(links[1].word)
           ELSE LiteralWord(links[1].word)>> \o WordsOf(Tail(links))

\* C16 as claimed: a decode of a single-path lattice returns one token, and
\* its history is the start-of-sentence id, the word of every link in the
\* order of the links, and the end-of-sentence id.
C16_SinglePathHistory ==
    (IsSinglePath(lattice) /\ pc \in {"returned", "failed"}) =>
        /\ pc = "returned"
        /\ Len(result) = 1
        /\ Len(result[1].history) = Len(lattice.links) + 2
        /\ result[1].history
              = <<sos_id>> \o WordsOf(PathFrom(lattice, lattice.initial_node)) \o <<eos_id>>

\* C16, amended: when max_tokens_per_node is not set or is at least 1, a
\* decode of a single-path lattice returns one token, and its history is the
\* start-of-sentence id, the word of every link whose word is not a marker in
\* the order of the links, and the end-of-sentence id.
C16_SinglePathHistoryOfWords ==
    (/\ IsSinglePath(lattice)
     /\ pc \in {"returned", "failed"}
     /\ (IsNone(options.max_tokens_per_node) \/ Val(options.max_tokens_per_node) >= 1)) =>
        /\ pc = "returned"
        /\ Len(result) = 1
        /\ result[1].history
              = <<sos_id>>
                    \o WordsOf(SelectSeq(PathFrom(lattice, lattice.initial_node),
                                         LAMBDA link : ~IsMarker(link.word)))
                    \o <<eos_id>>

\* A decode of a single-path lattice has returned a token whose history
\* holds a word that is not in the vocabulary.
C16_Witness ==
    /\ IsSinglePath(lattice)
    /\ pc = "returned"
    /\ Len(result) = 1
    /\ Len(result[1].history) >= 5
    /\ \E i \in 1..Len(result[1].history) : result[1].history[i] < 0

\* the source tokens of the k-th _propagate call are, when it returns, as
\* they were when it was called
SourcesUnchanged(k) == propagations[k].tokens_after = propagations[k].tokens

\* The history of every copy is a list object of its own: it is not the
\* history of a source token, nor that of another copy.
HistoriesNotShared(n) ==
    \A i \in 1..n :
        /\ history_of_copy(i, n) \notin 1..n
        /\ \A j \in 1..n : i # j => history_of_copy(i, n) # history_of_copy(j, n)

\* C17: _propagate leaves the tokens it is given as they are, so every link
\* out of a node is propagated from the tokens that _prune left at the node,
\* which are still the tokens of the node afterwards; the new tokens share no
\* history list with the source tokens or with each other, and a copy has no
\* hash and no total.
C17_SourceTokensUnchanged ==
    \A k \in 1..Len(propagations) :
        LET call == propagations[k]
        IN  /\ SourcesUnchanged(k)
            /\ HistoriesNotShared(Len(call.tokens))
            /\ \A m \in 1..Len(propagations) :
                  propagations[m].node = call.node => propagations[m].tokens = call.tokens
            /\ (Decoding /\ pruning.node = call.node) => call.tokens = pruning.new_tokens
            /\ Decoding => tokens[call.node] = call.tokens
            /\ \A i \in 1..Len(call.tokens) :
                  /\ IsNone(copy(call.tokens[i]).recombination_hash)
                  /\ IsNone(copy(call.tokens[i]).total_logprob)
                  /\ ~IsNone(call.tokens[i].recombination_hash)
                  /\ ~IsNone(call.tokens[i].total_logprob)

\* Several tokens of a node have been propagated through two links that
\* each append a word.
C17_Witness ==
    \E k, m \in 1..Len(propagations) :
        /\ k < m
        /\ propagations[k].node = propagations[m].node
        /\ Len(propagations[k].tokens) >= 2
        /\ appended_words(propagations[k].link) # <<>>
        /\ appended_words(propagations[m].link) # <<>>
        /\ appended_words(propagations[k].link) # appended_words(propagations[m].link)
        /\ Val(propagations[k].link).end_node # Val(propagations[m].link).end_node

\* the _propagate calls of the decode() under way that append a word
WordPropagations ==
    {k \in 1..Len(propagations) : appended_words(propagations[k].link) # <<>>}

\* the history entry of the target of a _propagate call that appends a word
TargetEntry(link) ==
    IF IsNone(link) THEN eos_id ELSE WordsOf(<<Val(link)>>)[1]

\* what the network is asked about for a history entry: the entry when it is
\* a shortlist id, the id of <unk> otherwise
NetworkWord(entry) ==
    IF entry >= 0 /\ in_shortlist(entry) THEN entry ELSE unk_id

\* C18: _propagate appends to each history the target of the link itself, its
\* vocabulary id or the literal word when the vocabulary does not have it,
\* and leaves the entries before it as they are; the id of <unk> replaces a
\* word that is not a shortlist id only in the previous word and the target
\* class that the step function is called with.
C18_HistoryKeepsActualWords ==
    \A k \in WordPropagations :
        LET call == propagations[k]
            entry == TargetEntry(call.link)
        IN  /\ Len(call.new_tokens) = Len(call.tokens)
            /\ Len(call.step_calls) = 1
            /\ call.step_calls[1].target_class_id
                  = word_id_to_class_id(NetworkWord(entry))
            /\ \A i \in 1..Len(call.tokens) :
                  /\ call.new_tokens[i].history = Append(call.tokens[i].history, entry)
                  /\ call.step_calls[1].input_word_ids[i]
                        = NetworkWord(call.tokens[i].history[Len(call.tokens[i].history)])
                  /\ call.new_tokens[i].state
                        = StepState(call.tokens[i].state,
                                    NetworkWord(call.tokens[i].history[Len(call.tokens[i].history)]))

\* A word that is in the vocabulary but not in the shortlist has been
\* appended to a history that ends in a word that is not in the vocabulary,
\* after a call with a shortlist word as the previous word.
C18_Witness ==
    \E k, m \in WordPropagations :
        /\ k < m
        /\ TargetEntry(propagations[k].link) < 0
        /\ NetworkWord(TargetEntry(propagations[k].link)) = unk_id
        /\ propagations[k].step_calls[1].input_word_ids[1] # unk_id
        /\ propagations[m].tokens[1].history[Len(propagations[m].tokens[1].history)] < 0
        /\ propagations[m].step_calls[1].input_word_ids[1] = unk_id
        /\ TargetEntry(propagations[m].link) >= 0
        /\ ~in_shortlist(TargetEntry(propagations[m].link))
        /\ propagations[m].new_tokens[1].history[Len(propagations[m].new_tokens[1].history)]
              # unk_id

\* the interpolated LM log probability of a token: w * nn + (1 - w) * lat in
\* the log-linear mode; in the linear mode, with a weight of 0 or 1,
\* log(w * exp(nn) + (1 - w) * exp(lat)) is the one of the two that has the
\* weight 1
InterpolatedLogprob(token) ==
    IF ~options.linear_interpolation
    THEN options.nnlm_weight * token.nn_lm_logprob
            + (1 - options.nnlm_weight) * token.lat_lm_logprob
    ELSE IF options.nnlm_weight = 1 THEN token.nn_lm_logprob
    ELSE token.lat_lm_logprob

\* the words that the links of a decode have appended to the history of token
AppendedWords(token) == Tail(token.history)

\* C19: every finalized token of a decode has total_logprob = ac_logprob +
\* lm_scale * lm_logprob + wi_penalty * len(history), with the lm_scale and
\* the wi_penalty of the decode() call, with lm_logprob the interpolation of
\* nn_lm_logprob and lat_lm_logprob by the decoder's weight, and with a
\* history that is the start-of-sentence id and the words appended since.
C19_TotalLogprobFormula ==
    Decoding =>
        \A token \in AllTokens \cup PropagatedTokens :
            /\ token.lm_logprob = Some(InterpolatedLogprob(token))
            /\ token.history = <<sos_id>> \o AppendedWords(token)
            /\ token.total_logprob
                  = Some(token.ac_logprob + lm_scale * InterpolatedLogprob(token)
                            + wi_penalty * (1 + Len(AppendedWords(token))))

\* decode() has returned a token with words appended whose scores are all
\* different from 0 and from each other, with an interpolation weight that
\* mixes the two LM scores, an LM scale that is not 1 and a word insertion
\* penalty that is not 0.
C19_Witness ==
    /\ pc = "returned"
    /\ options.nnlm_weight = 2
    /\ lm_scale > 1
    /\ wi_penalty # 0
    /\ \E i \in 1..Len(result) :
          /\ Len(result[i].history) >= 3
          /\ result[i].ac_logprob < 0
          /\ result[i].nn_lm_logprob < 0
          /\ result[i].lat_lm_logprob < 0
          /\ result[i].nn_lm_logprob # result[i].lat_lm_logprob
          /\ Val(result[i].lm_logprob) # result[i].nn_lm_logprob
          /\ Val(result[i].lm_logprob) # result[i].lat_lm_logprob

\* the links out of the nodes at the positions from to to of sorted_nodes,
\* node after node
RECURSIVE LinksOutOf(_, _)
LinksOutOf(from, to) ==
    IF from > to THEN <<>>
    ELSE LET links == out_links(sorted_nodes[from])
         IN  [i \in 1..Len(links) |-> Some(links[i])] \o LinksOutOf(from + 1, to)

\* The transitions of the decode() under way so far: the links out of the
\* nodes that the loop has gone past, and the end of the sentence when
\* decode() has returned.
Transitions ==
    LinksOutOf(1, node_index - 1) \o (IF pc = "returned" THEN <<None>> ELSE <<>>)

\* the number of step function calls of the first k _propagate calls
RECURSIVE StepCallCount(_)
StepCallCount(k) ==
    IF k = 0 THEN 0 ELSE Len(propagations[k].step_calls) + StepCallCount(k - 1)

\* C20: in a decode the step function is called once for each link, other
\* than a marker link, out of each node that the loop has gone past, and once
\* for the end of the sentence at the final node, with one previous word and
\* one state for each token that _prune left at the node and with one target
\* class; it is not called for a marker link.
C20_OneStepCallPerTransition ==
    Decoding =>
        /\ Len(propagations) = Len(Transitions)
        /\ \A k \in 1..Len(propagations) :
              LET call == propagations[k]
              IN  /\ call.link = Transitions[k]
                  /\ call.node = IF IsNone(call.link) THEN lattice.final_node
                                 ELSE Val(call.link).start_node
                  /\ call.node # lattice.final_node \/ IsNone(call.link)
                  /\ call.tokens = tokens[call.node]
                  /\ Len(call.step_calls)
                        = IF ~IsNone(call.link) /\ IsMarker(Val(call.link).word)
                          THEN 0 ELSE 1
                  /\ \A c \in 1..Len(call.step_calls) :
                        /\ Len(call.step_calls[c].input_word_ids) = Len(tokens[call.node])
                        /\ Len(call.step_calls[c].recurrent_state) = Len(tokens[call.node])
                        /\ call.step_calls[c].target_class_id
                              = word_id_to_class_id(NetworkWord(TargetEntry(call.link)))
        /\ StepCallCount(Len(propagations))
              = Cardinality({k \in 1..Len(Transitions) :
                                \/ IsNone(Transitions[k])
                                \/ ~IsMarker(Val(Transitions[k]).word)})

\* decode() has returned after a call for several tokens at the end of the
\* sentence, calls for links that have a word, and no call for a marker link
\* that several tokens went through.
C20_Witness ==
    /\ pc = "returned"
    /\ Len(propagations[Len(propagations)].step_calls) = 1
    /\ Len(propagations[Len(propagations)].step_calls[1].input_word_ids) >= 2
    /\ \E k \in MarkerPropagations :
          Len(propagations[k].tokens) >= 2 /\ propagations[k].step_calls = <<>>
    /\ \E k \in WordPropagations : ~IsNone(propagations[k].link)
    /\ StepCallCount(Len(propagations)) < Len(propagations)

\* the arguments of the command are a number of jobs and a job that it accepts
ValidJob == command.num_jobs >= 1 /\ command.job \in 0..(command.num_jobs - 1)

\* the positions, counted from 0, of a list of n lattices that are job i of j:
\* i, i + j, i + 2j, ...
JobPositions(i, j, n) == {p \in 0..(n - 1) : \E k \in 0..n : p = i + k * j}

\* the lattices of the list all at the positions of job i of j, in their order
RECURSIVE AtPositions(_, _, _)
AtPositions(all, positions, from) ==
    IF from > Len(all) THEN <<>>
    ELSE (IF (from - 1) \in positions THEN <<all[from]>> ELSE <<>>)
            \o AtPositions(all, positions, from + 1)

\* the positions 0, 1, ... of a list of n lattices, as a list
PositionList(n) == [p \in 1..n |-> p - 1]

\* the set of the entries of a list
Entries(s) == {s[i] : i \in 1..Len(s)}

\* C21: with --num-jobs J >= 1 and --job I in 0..J-1 the command decodes the
\* lattices at the positions I, I+J, I+2J, ... of the stripped list without
\* its empty lines, in their order and no others, all of them when it runs
\* to its end; the batches of the jobs 0..J-1 are disjoint and have every
\* position between them; with any other J and I the command exits with
\* status 1 and has decoded no lattice.
C21_JobsPartitionLattices ==
    LET all == command_lattices
        n == Len(all)
        batch == AtPositions(all, JobPositions(command.job, command.num_jobs, n), 1)
    IN  /\ (ValidJob /\ command.pc \in {"loop", "raised", "done"}) =>
              /\ command.lattices = batch
              /\ IsPrefix(command.decoded, batch)
              /\ Len(command.decoded) = command.index
              /\ command.pc = "done" => command.decoded = batch
              /\ IsNone(command.exit_status)
        /\ ValidJob =>
              /\ command.pc # "exited"
              /\ \A i \in 0..(command.num_jobs - 1) :
                    /\ Entries(job_batch(PositionList(n), i, command.num_jobs))
                          = JobPositions(i, command.num_jobs, n)
                    /\ Len(job_batch(PositionList(n), i, command.num_jobs))
                          = Cardinality(JobPositions(i, command.num_jobs, n))
                    /\ \A k \in 0..(command.num_jobs - 1) :
                          i # k => Entries(job_batch(PositionList(n), i, command.num_jobs))
                                      \cap Entries(job_batch(PositionList(n), k,
                                                             command.num_jobs)) = {}
              /\ UNION {Entries(job_batch(PositionList(n), i, command.num_jobs)) :
                            i \in 0..(command.num_jobs - 1)} = 0..(n - 1)
        /\ (~ValidJob /\ command.pc \notin {"start", "none"}) =>
              /\ command.pc = "exited"
              /\ command.exit_status = Some(1)
              /\ command.decoded = <<>>
              /\ command.index = 0

\* The second of two jobs has run to its end on a list that had an empty
\* line and three lattices, of which it decoded the second one only.
C21_Witness ==
    /\ command.pc = "done"
    /\ command.num_jobs = 2
    /\ command.job = 1
    /\ ~IsNone(command.lattice_list)
    /\ Len(command_lattices) = 3
    /\ Len(command.lattices_arg) + Len(Val(command.lattice_list)) > 3
    /\ command.decoded = <<command_lattices[2]>>
    /\ command_lattices[1] # command_lattices[2]

\* the node where a path of links, given by their places in lattice.links,
\* ends when it starts at the initial node
PathEnd(path) ==
    IF Len(path) = 0 THEN lattice.initial_node
    ELSE lattice.links[path[Len(path)]].end_node

\* the paths of k links that start at the initial node
RECURSIVE PathsOfLength(_)
PathsOfLength(k) ==
    IF k = 0 THEN {<<>>}
    ELSE UNION {{Append(path, i) :
                    i \in {j \in 1..Len(lattice.links) :
                              lattice.links[j].start_node = PathEnd(path)}} :
                path \in PathsOfLength(k - 1)}

\* the paths from the initial node to node n
PathsTo(n) ==
    {path \in UNION {PathsOfLength(k) : k \in 0..(lattice.num_nodes - 1)} :
        PathEnd(path) = n}

PathLinks(path) == [k \in 1..Len(path) |-> lattice.links[path[k]]]

RECURSIVE SumAc(_)
SumAc(links) ==
    IF Len(links) = 0 THEN 0 ELSE Present(links[1].ac_logprob) + SumAc(Tail(links))

RECURSIVE SumLm(_)
SumLm(links) ==
    IF Len(links) = 0 THEN 0 ELSE Present(links[1].lm_logprob) + SumLm(Tail(links))

\* the history that a path gives: the start-of-sentence id and the words of
\* its links that are not markers
PathHistory(path) ==
    <<sos_id>> \o WordsOf(SelectSeq(PathLinks(path), LAMBDA link : ~IsMarker(link.word)))

\* token has the history and the acoustic and lattice LM sums of path
OnPath(token, path) ==
    /\ token.history = PathHistory(path)
    /\ token.ac_logprob = SumAc(PathLinks(path))
    /\ token.lat_lm_logprob = SumLm(PathLinks(path))

\* C22: every token of the token table at a node has the history (the
\* start-of-sentence id and the words that are not markers) and the acoustic
\* and lattice LM sums of a path from the initial node to that node, and
\* every returned token has those of a path from the initial node to the
\* final node, with the end-of-sentence id after the words.
C22_TokensFollowPaths ==
    Decoding =>
        /\ \A n \in Nodes :
              \A i \in 1..Len(tokens[n]) :
                  \E path \in PathsTo(n) : OnPath(tokens[n][i], path)
        /\ \A i \in 1..Len(result) :
              \E path \in PathsTo(lattice.final_node) :
                  /\ result[i].history = Append(PathHistory(path), eos_id)
                  /\ result[i].ac_logprob = SumAc(PathLinks(path))
                  /\ result[i].lat_lm_logprob = SumLm(PathLinks(path))

\* decode() has returned tokens of different paths of three links, two of
\* them marker links, with acoustic and lattice LM sums below 0.
C22_Witness ==
    /\ pc = "returned"
    /\ Len(result) >= 2
    /\ result[1].history # result[2].history
    /\ \A i \in 1..Len(result) :
          /\ result[i].ac_logprob < 0
          /\ result[i].lat_lm_logprob < 0
          /\ \E path \in PathsTo(lattice.final_node) :
                /\ Len(path) = 3
                /\ Len(result[i].history) = 3
                /\ result[i].history = Append(PathHistory(path), eos_id)

\* C23: _prune never leaves a node that had tokens without any, whatever
\* beam, max_tokens_per_node and recombination_order are; the first token it
\* leaves has the greatest total_logprob of the tokens the node had; and the
\* assertion that follows _prune in decode() does not fail.
C23_PruneNeverEmpties ==
    (Decoding /\ Pruned /\ Len(pruning.input) > 0) =>
        /\ Len(pruning.new_tokens) > 0
        /\ Val(pruning.new_tokens[1].total_logprob) = MaxTotal(pruning.input)
        /\ ~(pc = "failed" /\ error = "AssertionError"
                /\ node_index <= Len(sorted_nodes)
                /\ pruning.node = sorted_nodes[node_index])

\* the place of node n in sorted_nodes, or 0 when it is not there
PositionOf(n) ==
    IF \E i \in 1..Len(sorted_nodes) : sorted_nodes[i] = n
    THEN CHOOSE i \in 1..Len(sorted_nodes) : sorted_nodes[i] = n
    ELSE 0

\* the nodes that come after the final node in sorted_nodes
AfterFinalNode ==
    {n \in Nodes : PositionOf(lattice.final_node) > 0
                   /\ PositionOf(n) > PositionOf(lattice.final_node)}

\* No link is propagated twice, the nodes are propagated in the order of
\* sorted_nodes, and the tokens of a link go to a node that comes later in
\* that order than every node that has been pruned.
PropagatedOnceAndForward ==
    /\ \A k, m \in 1..Len(propagations) :
          /\ (k # m /\ propagations[k].node = propagations[m].node)
                => propagations[k].link # propagations[m].link
          /\ k < m => PositionOf(propagations[k].node) <= PositionOf(propagations[m].node)
    /\ \A k \in 1..Len(propagations) :
          /\ PositionOf(propagations[k].node) >= 1
          /\ PositionOf(propagations[k].node) <= node_index
          /\ ~IsNone(propagations[k].link) =>
                LET to == Val(propagations[k].link).end_node
                IN  /\ NotYetPruned(to) \/ PositionOf(to) > PositionOf(propagations[k].node)
                    /\ \A m \in 1..Len(propagations) : propagations[m].node = to => k < m

\* The loop stops at the final node: a node after it is not pruned and not
\* propagated, and what decode() returns are the tokens of the final node.
NothingAfterFinalNode ==
    \A n \in AfterFinalNode :
        /\ NotYetPruned(n)
        /\ \A k \in 1..Len(propagations) : propagations[k].node # n
        /\ pc \in {"pruned", "returned"} => pruning.node # n
        /\ pc = "returned" => Len(result) = Len(tokens[lattice.final_node])

\* a step of a decode() call leaves the token list of a pruned node as it is
PrunedNodesKeepTokens ==
    calls' = calls =>
        \A n \in Nodes : ~NotYetPruned(n) => tokens'[n] = tokens[n]

\* _prune is called for a node that has not been pruned in this decode(),
\* with the tokens that the node has then
PruneTakesAllTokens ==
    (pc = "loop" /\ pc' \in {"pruned", "failed"} /\ pruning' # pruning) =>
        /\ NotYetPruned(pruning'.node)
        /\ \A k \in 1..Len(propagations) : propagations[k].node # pruning'.node
        /\ pruning'.input = tokens[pruning'.node]
        /\ node_index' = node_index

\* C24: in a decode() each node is pruned and propagated at most once, in
\* the order of sorted_nodes; no token is appended to the token list of a
\* node that has been pruned, so _prune has every token that comes to the
\* node; and a node after the final node is never pruned or propagated, the
\* tokens left at it being in nothing that decode() returns.
C24_NodesProcessedOnceInOrder ==
    /\ [](Decoding => (PropagatedOnceAndForward /\ NothingAfterFinalNode))
    /\ [][PrunedNodesKeepTokens /\ PruneTakesAllTokens]_vars

\* decode() has returned; a node got its tokens from two nodes before it was
\* pruned, and tokens were left at a node after the final node.
C24_Witness ==
    /\ pc = "returned"
    /\ \E n \in AfterFinalNode : Len(tokens[n]) >= 1
    /\ \E k, m \in 1..Len(propagations) :
          /\ propagations[k].node # propagations[m].node
          /\ ~IsNone(propagations[k].link)
          /\ ~IsNone(propagations[m].link)
          /\ Val(propagations[k].link).end_node = Val(propagations[m].link).end_node
          /\ Val(propagations[k].link).end_node = lattice.final_node

====
